---- MODULE Spec2Model ----
(***************************************************************************)
(* A model of the UVM toolchain: the assembler (src/assembler.py), which   *)
(* encodes symbolic instructions into a flat byte stream, and the          *)
(* interpreter (src/interpreter.py), which executes such a stream against  *)
(* an operand stack and a data memory.                                     *)
(*                                                                         *)
(* Three specifications share the variables:                               *)
(*   EncSpec  one Instruction, with to_binary and get_size applied to it   *)
(*   AsmSpec  one Assembler object: parse, assemble, save, display         *)
(*   VmSpec   one UVMInterpreter object: load_program, execute             *)
(***************************************************************************)
EXTENDS Integers, Sequences, FiniteSets, TLC

VARIABLES
    instr,          \* EncSpec: the Instruction under test
    instr_binary,   \* EncSpec: outcome of instr.to_binary(), NotCalled before
    instr_size,     \* EncSpec: outcome of instr.get_size(), NotCalled before
    instructions,   \* Assembler.instructions
    binary_data,    \* Assembler.binary_data
    out_file,       \* the file save_binary_file writes: <<>> absent, <<bytes>> written
    last_op,        \* the Assembler operation that ran last
    last_result,    \* what that operation returned or raised
    code_memory,    \* UVMInterpreter.code_memory
    program_size,   \* UVMInterpreter.program_size
    data_memory,    \* UVMInterpreter.data_memory
    stack,          \* UVMInterpreter.stack
    ip,             \* UVMInterpreter.ip
    pc,             \* where the interpreter object's caller is
    instruction_count, \* execute's local instruction_count
    start_ip,       \* execute's local start_ip
    opcode,         \* execute's local opcode
    error,          \* the exception execute raised, NoError if none
    executions,     \* how many times execute was called on the interpreter
    dump            \* save_memory_dump: its last call, and the file it writes

encVars == <<instr, instr_binary, instr_size>>
asmVars == <<instructions, binary_data, out_file, last_op, last_result>>
vmVars == <<code_memory, program_size, data_memory, stack, ip, pc,
            instruction_count, start_ip, opcode, error, executions, dump>>
vars == <<encVars, asmVars, vmVars>>

(***************************************************************************)
(* Bounds of the model.                                                    *)
(***************************************************************************)
\* EncSpec tries every operand in -1 .. MaxSmallOperand, and some large ones
MaxSmallOperand == 70
\* AsmSpec: the most instructions the front end hands to one Assembler
MaxInstrs == 2
\* VmSpec: the most pieces that follow the prologue of a loaded program
MaxProgLen == 2
\* VmSpec: the most calls of execute on one interpreter
MaxExecutes == 2
\* ReuseSpec: the most instructions of a program loaded into a reused interpreter
MaxReuseLen == 2

(***************************************************************************)
(* Python values.                                                          *)
(***************************************************************************)
\* Python's int is unbounded and TLC's is 32 bits wide, so an int n is kept as
\* the pair hi, lo with n = hi * 65536 + lo and 0 <= lo < 65536
Half == 256 * 256

PyInt(n) == [hi |-> n \div Half, lo |-> n % Half]

IntOf(hi, lo) == [hi |-> hi, lo |-> lo]

\* a + b
IntAdd(a, b) ==
    [hi |-> a.hi + b.hi + ((a.lo + b.lo) \div Half), lo |-> (a.lo + b.lo) % Half]

\* a < b
IntLt(a, b) == a.hi < b.hi \/ (a.hi = b.hi /\ a.lo < b.lo)

\* a <= b
IntLe(a, b) == a = b \/ IntLt(a, b)

\* a & mask for a mask 2^k - 1 <= 65535, as a small number (two's complement,
\* so -1 & 0xFF is 255)
IntAnd(a, mask) == a.lo % (mask + 1)

\* Optional[int]: None is the empty sequence, an int v is <<v>>
None == <<>>

Some(v) == <<v>>

\* the outcome of a call: a returned value or a raised exception
Return(v) == [ok |-> TRUE, value |-> v, type |-> "", msg |-> "", line |-> 0]

Raise(t, m, l) == [ok |-> FALSE, value |-> <<>>, type |-> t, msg |-> m, line |-> l]

NotCalled == [ok |-> FALSE, value |-> <<>>, type |-> "NotCalled", msg |-> "", line |-> 0]

\* 0 <= v < 256^length, for the lengths 1..4
FitsBytes(v, length) ==
    /\ v.hi >= 0
    /\ CASE length = 1 -> v.hi = 0 /\ v.lo < 256
         [] length = 2 -> v.hi = 0
         [] length = 3 -> v.hi < 256
         [] OTHER -> v.hi < Half

\* byte i (0 the least significant) of v >= 0
ByteOf(v, i) ==
    CASE i = 0 -> v.lo % 256
      [] i = 1 -> v.lo \div 256
      [] i = 2 -> v.hi % 256
      [] OTHER -> (v.hi \div 256) % 256

\* to_bytes with the most significant byte first
to_bytes_big_endian(v, length) ==
    IF v.hi < 0 THEN Raise("OverflowError", "can't convert negative int to unsigned", 0)
    ELSE IF ~FitsBytes(v, length) THEN Raise("OverflowError", "int too big to convert", 0)
    ELSE Return([i \in 1..length |-> ByteOf(v, length - i)])

\* int.to_bytes(length, 'little'): OverflowError outside 0 .. 256^length - 1
to_bytes(v, length) ==
    IF v.hi < 0 THEN Raise("OverflowError", "can't convert negative int to unsigned", 0)
    ELSE IF ~FitsBytes(v, length) THEN Raise("OverflowError", "int too big to convert", 0)
    ELSE Return([i \in 1..length |-> ByteOf(v, i - 1)])

\* a + b on bytes, where evaluating either operand may raise (a first)
BytesAdd(a, b) ==
    IF ~a.ok THEN a ELSE IF ~b.ok THEN b ELSE Return(a.value \o b.value)

(***************************************************************************)
(* src/assembler.py: Opcode and Instruction.                               *)
(***************************************************************************)
LOAD_CONST == 74
READ_MEM == 135
WRITE_MEM == 213
SGN == 154

Opcode == {LOAD_CONST, READ_MEM, WRITE_MEM, SGN}

Mnemonics == {"load", "read", "write", "sgn"}

\* Opcode.from_mnemonic, on lower-cased text
from_mnemonic(mnemonic) ==
    IF mnemonic \notin Mnemonics
    THEN Raise("ValueError", "Unknown mnemonic", 0)
    ELSE Return(CASE mnemonic = "load" -> LOAD_CONST
                  [] mnemonic = "read" -> READ_MEM
                  [] mnemonic = "write" -> WRITE_MEM
                  [] mnemonic = "sgn" -> SGN)

Instruction(op, operand, line_number) ==
    [opcode |-> op, operand |-> operand, line_number |-> line_number]

MaxOffset == 63

\* to_binary with the offset test >= 0x3F in place of > 0x3F
to_binary_offset_ge(self) ==
    CASE self.opcode = LOAD_CONST ->
            IF self.operand = None
            THEN Raise("ValueError", "LOAD requires operand", self.line_number)
            ELSE BytesAdd(to_bytes(PyInt(self.opcode), 1), to_bytes(self.operand[1], 4))
      [] self.opcode = READ_MEM ->
            IF self.operand = None
            THEN Raise("ValueError", "READ requires operand", self.line_number)
            ELSE IF IntLe(PyInt(MaxOffset), self.operand[1])
            THEN Raise("ValueError", "Offset too large", self.line_number)
            ELSE BytesAdd(to_bytes(PyInt(self.opcode), 1), to_bytes(self.operand[1], 1))
      [] self.opcode = WRITE_MEM ->
            IF self.operand = None
            THEN Raise("ValueError", "WRITE requires operand", self.line_number)
            ELSE BytesAdd(to_bytes(PyInt(self.opcode), 1), to_bytes(self.operand[1], 4))
      [] self.opcode = SGN -> to_bytes(PyInt(self.opcode), 1)
      [] OTHER -> Raise("ValueError", "Unknown opcode", self.line_number)

\* to_binary without the operand is None tests (a missing operand taken as 0)
to_binary_no_operand_check(self) ==
    CASE self.opcode = LOAD_CONST ->
            BytesAdd(to_bytes(PyInt(self.opcode), 1),
                     to_bytes(IF self.operand = None THEN PyInt(0) ELSE self.operand[1], 4))
      [] self.opcode = READ_MEM ->
            IF self.operand # None /\ IntLt(PyInt(MaxOffset), self.operand[1])
            THEN Raise("ValueError", "Offset too large", self.line_number)
            ELSE BytesAdd(to_bytes(PyInt(self.opcode), 1),
                          to_bytes(IF self.operand = None THEN PyInt(0) ELSE self.operand[1], 1))
      [] self.opcode = WRITE_MEM ->
            BytesAdd(to_bytes(PyInt(self.opcode), 1),
                     to_bytes(IF self.operand = None THEN PyInt(0) ELSE self.operand[1], 4))
      [] self.opcode = SGN -> to_bytes(PyInt(self.opcode), 1)
      [] OTHER -> Raise("ValueError", "Unknown opcode", self.line_number)

\* to_binary without the offset test: any offset that fits the byte is encoded
to_binary_no_offset_test(self) ==
    CASE self.opcode = LOAD_CONST ->
            IF self.operand = None
            THEN Raise("ValueError", "LOAD requires operand", self.line_number)
            ELSE BytesAdd(to_bytes(PyInt(self.opcode), 1), to_bytes(self.operand[1], 4))
      [] self.opcode = READ_MEM ->
            IF self.operand = None
            THEN Raise("ValueError", "READ requires operand", self.line_number)
            ELSE BytesAdd(to_bytes(PyInt(self.opcode), 1), to_bytes(self.operand[1], 1))
      [] self.opcode = WRITE_MEM ->
            IF self.operand = None
            THEN Raise("ValueError", "WRITE requires operand", self.line_number)
            ELSE BytesAdd(to_bytes(PyInt(self.opcode), 1), to_bytes(self.operand[1], 4))
      [] self.opcode = SGN -> to_bytes(PyInt(self.opcode), 1)
      [] OTHER -> Raise("ValueError", "Unknown opcode", self.line_number)

\* Instruction.to_binary
to_binary(self) ==
    CASE self.opcode = LOAD_CONST ->
            IF self.operand = None
            THEN Raise("ValueError", "LOAD requires operand", self.line_number)
            ELSE BytesAdd(to_bytes(PyInt(self.opcode), 1), to_bytes(self.operand[1], 4))
      [] self.opcode = READ_MEM ->
            IF self.operand = None
            THEN Raise("ValueError", "READ requires operand", self.line_number)
            ELSE IF IntLt(PyInt(MaxOffset), self.operand[1])
            THEN Raise("ValueError", "Offset too large", self.line_number)
            ELSE BytesAdd(to_bytes(PyInt(self.opcode), 1), to_bytes(self.operand[1], 1))
      [] self.opcode = WRITE_MEM ->
            IF self.operand = None
            THEN Raise("ValueError", "WRITE requires operand", self.line_number)
            ELSE BytesAdd(to_bytes(PyInt(self.opcode), 1), to_bytes(self.operand[1], 4))
      [] self.opcode = SGN -> to_bytes(PyInt(self.opcode), 1)
      [] OTHER -> Raise("ValueError", "Unknown opcode", self.line_number)

\* get_size with READ_MEM given the size of SGN
get_size_read_as_sgn(self) ==
    CASE self.opcode = LOAD_CONST -> 5
      [] self.opcode = READ_MEM -> 1
      [] self.opcode = WRITE_MEM -> 5
      [] self.opcode = SGN -> 1
      [] OTHER -> 0

\* Instruction.get_size
get_size(self) ==
    CASE self.opcode = LOAD_CONST -> 5
      [] self.opcode = READ_MEM -> 2
      [] self.opcode = WRITE_MEM -> 5
      [] self.opcode = SGN -> 1
      [] OTHER -> 0

(***************************************************************************)
(* The two objects as their constructors leave them.                       *)
(***************************************************************************)
\* Assembler.__init__
AsmNew ==
    /\ instructions = <<>>
    /\ binary_data = <<>>
    /\ out_file = <<>>
    /\ last_op = "__init__"
    /\ last_result = Return(<<>>)

\* data_memory_size, as main passes it to the constructor
DataMemorySize == 1024

\* bytearray(data_memory_size) is all zeros: the memory is kept as the function
\* from the addresses that hold a non-zero byte to that byte
ZeroMemory == [a \in {} |-> 0]

NoError == [type |-> "", msg |-> "", args |-> <<>>]

\* UVMInterpreter.__init__
VmNew ==
    /\ code_memory = <<>>
    /\ program_size = 0
    /\ data_memory = ZeroMemory
    /\ stack = <<>>
    /\ ip = 0
    /\ pc = "constructed"
    /\ instruction_count = 0
    /\ start_ip = 0
    /\ opcode = 0
    /\ error = NoError
    /\ executions = 0
    /\ dump = [start |-> 0, end |-> 0, result |-> NotCalled, file |-> <<>>]

(***************************************************************************)
(* EncSpec: to_binary and get_size as functions of one Instruction.        *)
(***************************************************************************)
\* 2^31 - 1, 2^31, 2^32 - 1, 2^32 and 2^32 + 468
HugeOperands ==
    {IntOf(32767, 65535), IntOf(32768, 0), IntOf(65535, 65535), IntOf(65536, 0),
     IntOf(65536, 468)}

LargeOperands == {224, 255, 256, 468, 65535, 65536, 16777216}

EncOperands ==
    {None} \cup {Some(PyInt(v)) : v \in (-1..MaxSmallOperand) \cup LargeOperands}
        \cup {Some(v) : v \in HugeOperands}

EncInit ==
    /\ instr \in {Instruction(op, x, 1) : op \in Opcode, x \in EncOperands}
    /\ instr_binary = NotCalled
    /\ instr_size = NotCalled
    /\ AsmNew
    /\ VmNew

\* a caller evaluates instr.to_binary()
CallToBinary ==
    /\ instr_binary = NotCalled
    /\ instr_binary' = to_binary(instr)
    /\ UNCHANGED <<instr, instr_size, asmVars, vmVars>>

\* a caller evaluates instr.get_size()
CallGetSize ==
    /\ instr_size = NotCalled
    /\ instr_size' = Return(get_size(instr))
    /\ UNCHANGED <<instr, instr_binary, asmVars, vmVars>>

EncNext == CallToBinary \/ CallGetSize

EncSpec == EncInit /\ [][EncNext]_vars

(***************************************************************************)
(* Claims about the encoding of one instruction (EncSpec).                 *)
(***************************************************************************)
\* the error kinds of the encoder, as the ValueError messages that carry them
MissingOperand(r) ==
    /\ ~r.ok
    /\ r.type = "ValueError"
    /\ r.msg \in {"LOAD requires operand", "READ requires operand", "WRITE requires operand"}

OperandOutOfRange(r) == ~r.ok /\ r.type = "ValueError" /\ r.msg = "Offset too large"

IsU32(v) == v.hi >= 0 /\ v.hi < Half

\* the operands the layout table takes: any unsigned 32-bit value for load and
\* write, 0..63 for read, anything (or nothing) for sgn
LegalOperand(i) ==
    CASE i.opcode \in {LOAD_CONST, WRITE_MEM} -> i.operand # None /\ IsU32(i.operand[1])
      [] i.opcode = READ_MEM ->
            i.operand # None /\ i.operand[1].hi = 0 /\ i.operand[1].lo <= 63
      [] OTHER -> TRUE

\* bs is the byte tag followed by v as 4 little-endian bytes
IsTagAndDword(bs, tag, v) ==
    /\ Len(bs) = 5
    /\ bs[1] = tag
    /\ \A k \in 2..5 : bs[k] \in 0..255
    /\ bs[2] + 256 * bs[3] = v.lo
    /\ bs[4] + 256 * bs[5] = v.hi

\* C1: to_binary gives every instruction with a legal operand its fixed layout:
\* load v is 74 and v in 4 little-endian bytes, read o is 135 and o, write a is
\* 213 and a in 4 little-endian bytes, sgn is 154; so load 468 is 4A D4 01 00 00,
\* read 15 is 87 0F, write 224 is D5 E0 00 00 00 and sgn is 9A.
C1_FixedLayout ==
    (instr_binary # NotCalled /\ LegalOperand(instr)) =>
        /\ instr_binary.ok
        /\ instr.opcode = LOAD_CONST =>
                IsTagAndDword(instr_binary.value, 74, instr.operand[1])
        /\ instr.opcode = READ_MEM =>
                instr_binary.value = <<135, instr.operand[1].lo>>
        /\ instr.opcode = WRITE_MEM =>
                IsTagAndDword(instr_binary.value, 213, instr.operand[1])
        /\ instr.opcode = SGN => instr_binary.value = <<154>>
        /\ (instr.opcode = LOAD_CONST /\ instr.operand = Some(PyInt(468))) =>
                instr_binary.value = <<74, 212, 1, 0, 0>>
        /\ (instr.opcode = READ_MEM /\ instr.operand = Some(PyInt(15))) =>
                instr_binary.value = <<135, 15>>
        /\ (instr.opcode = WRITE_MEM /\ instr.operand = Some(PyInt(224))) =>
                instr_binary.value = <<213, 224, 0, 0, 0>>

C1_Witness ==
    /\ instr.opcode = LOAD_CONST
    /\ instr.operand = Some(PyInt(468))
    /\ instr_binary = Return(<<74, 212, 1, 0, 0>>)

\* C2: for every opcode and legal operand, get_size is the length of what
\* to_binary returns: 5 for load, 2 for read, 5 for write, 1 for sgn, whatever
\* the operand.
C2_SizeIsEncodedLength ==
    /\ instr_size # NotCalled =>
            /\ instr_size.ok
            /\ instr_size.value = (CASE instr.opcode = LOAD_CONST -> 5
                                     [] instr.opcode = READ_MEM -> 2
                                     [] instr.opcode = WRITE_MEM -> 5
                                     [] instr.opcode = SGN -> 1)
    /\ (instr_size # NotCalled /\ instr_binary # NotCalled /\ LegalOperand(instr)) =>
            /\ instr_binary.ok
            /\ instr_size.value = Len(instr_binary.value)

C2_Witness ==
    /\ instr.opcode = READ_MEM
    /\ instr.operand = Some(PyInt(15))
    /\ instr_size = Return(2)
    /\ instr_binary.ok
    /\ Len(instr_binary.value) = 2

\* C3: encoding read fails with the out-of-range error, and no bytes, for every
\* offset above 63 (64 among them); for every offset in 0..63 it succeeds and
\* the second byte is the offset (63 is 0x3F).
C3_ReadOffsetRange ==
    (instr_binary # NotCalled /\ instr.opcode = READ_MEM /\ instr.operand # None) =>
        LET o == instr.operand[1] IN
        /\ IntLt(PyInt(63), o) =>
                OperandOutOfRange(instr_binary) /\ instr_binary.value = <<>>
        /\ (IntLe(PyInt(0), o) /\ IntLe(o, PyInt(63))) =>
                /\ instr_binary.ok
                /\ Len(instr_binary.value) = 2
                /\ instr_binary.value[2] = o.lo
        /\ o = PyInt(63) => instr_binary = Return(<<135, 63>>)
        /\ o = PyInt(64) => OperandOutOfRange(instr_binary)

C3_Witness ==
    /\ instr.opcode = READ_MEM
    /\ instr.operand = Some(PyInt(64))
    /\ OperandOutOfRange(instr_binary)
    /\ instr_binary.value = <<>>

\* C4: encoding load, read or write without an operand fails with the
\* missing-operand error and no bytes; encoding sgn never fails and gives
\* exactly 154, with or without an operand.
C4_MissingOperand ==
    instr_binary # NotCalled =>
        /\ (instr.opcode \in {LOAD_CONST, READ_MEM, WRITE_MEM} /\ instr.operand = None) =>
                MissingOperand(instr_binary) /\ instr_binary.value = <<>>
        /\ instr.opcode = SGN => instr_binary = Return(<<154>>)

C4_Witness ==
    /\ instr.opcode = WRITE_MEM
    /\ instr.operand = None
    /\ MissingOperand(instr_binary)

(***************************************************************************)
(* src/assembler.py: Assembler.                                            *)
(***************************************************************************)
RECURSIVE AssembleFrom(_, _, _)
\* the loop of assemble_to_binary from instruction k on, binary_data being acc:
\* the binary_data it leaves and what the call returns or raises
AssembleFrom(instrs, k, acc) ==
    IF k > Len(instrs)
    THEN [binary_data |-> acc, result |-> Return(acc)]
    ELSE LET r == to_binary(instrs[k]) IN
         IF ~r.ok
         THEN [binary_data |-> acc, result |-> Raise(r.type, r.msg, r.line)]
         ELSE AssembleFrom(instrs, k + 1, acc \o r.value)

\* assemble_to_binary without the self.binary_data = b'' that starts it
assemble_to_binary_no_reset(self_instructions, self_binary_data) ==
    AssembleFrom(self_instructions, 1, self_binary_data)

\* Assembler.assemble_to_binary
assemble_to_binary(self_instructions, self_binary_data) ==
    AssembleFrom(self_instructions, 1, <<>>)

HexDigits == <<"0", "1", "2", "3", "4", "5", "6", "7",
               "8", "9", "A", "B", "C", "D", "E", "F">>

\* f'0x{b:02X}', as the pair of digits after the 0x
Hex(b) == <<HexDigits[(b \div 16) + 1], HexDigits[(b % 16) + 1]>>

\* [f'0x{b:02X}' for b in data]
HexBytes(data) == [k \in 1..Len(data) |-> Hex(data[k])]

RECURSIVE DetailedFrom(_, _, _)
\* the 'detailed' loop of display_binary_output from instruction k on
DetailedFrom(instrs, k, lines) ==
    IF k > Len(instrs)
    THEN Return(lines)
    ELSE LET r == to_binary(instrs[k]) IN
         IF ~r.ok
         THEN r
         ELSE DetailedFrom(instrs, k + 1,
                Append(lines, [index |-> k - 1, line |-> instrs[k].line_number,
                               hex |-> HexBytes(r.value)]))

Formats == {"hex", "detailed"}

\* the operands the front end resolves: none, 15, 63, 64, 468 and 2^32
AsmOperands ==
    {None, Some(PyInt(15)), Some(PyInt(63)), Some(PyInt(64)), Some(PyInt(468)),
     Some(IntOf(65536, 0))}

AsmInit ==
    /\ instr = Instruction(SGN, None, 0)
    /\ instr_binary = NotCalled
    /\ instr_size = NotCalled
    /\ AsmNew
    /\ VmNew

\* Assembler.parse_simple_text on one line "mnemonic [operand]"
parse_simple_text(mnemonic, operand) ==
    /\ Len(instructions) < MaxInstrs
    /\ LET line_num == Len(instructions) + 1
           op == from_mnemonic(mnemonic) IN
       IF ~op.ok
       THEN /\ last_result' = Raise("ValueError", op.msg, line_num)
            /\ UNCHANGED instructions
       ELSE /\ instructions' = Append(instructions,
                                      Instruction(op.value, operand, line_num))
            /\ last_result' = Return(<<>>)
    /\ last_op' = "parse_simple_text"
    /\ UNCHANGED <<binary_data, out_file, encVars, vmVars>>

\* Assembler.assemble_to_binary, called on its own
AssembleToBinary ==
    /\ LET a == assemble_to_binary(instructions, binary_data) IN
       /\ binary_data' = a.binary_data
       /\ last_result' = a.result
    /\ last_op' = "assemble_to_binary"
    /\ UNCHANGED <<instructions, out_file, encVars, vmVars>>

\* Assembler.save_binary_file
save_binary_file ==
    /\ LET a == IF binary_data = <<>>
                THEN assemble_to_binary(instructions, binary_data)
                ELSE [binary_data |-> binary_data, result |-> Return(binary_data)] IN
       /\ binary_data' = a.binary_data
       /\ IF a.result.ok
          THEN /\ out_file' = <<a.binary_data>>
               /\ last_result' = Return(<<>>)
          ELSE /\ last_result' = a.result
               /\ UNCHANGED out_file
    /\ last_op' = "save_binary_file"
    /\ UNCHANGED <<instructions, encVars, vmVars>>

\* Assembler.display_binary_output
display_binary_output(format_style) ==
    /\ LET a == IF binary_data = <<>>
                THEN assemble_to_binary(instructions, binary_data)
                ELSE [binary_data |-> binary_data, result |-> Return(binary_data)] IN
       /\ binary_data' = a.binary_data
       /\ last_result' =
            IF ~a.result.ok THEN a.result
            ELSE IF format_style = "hex" THEN Return(<<HexBytes(a.binary_data)>>)
            ELSE DetailedFrom(instructions, 1, <<>>)
    /\ last_op' = "display_binary_output"
    /\ UNCHANGED <<instructions, out_file, encVars, vmVars>>

AsmNext ==
    \/ \E m \in Mnemonics \cup {"nop"}, x \in AsmOperands : parse_simple_text(m, x)
    \/ AssembleToBinary
    \/ save_binary_file
    \/ \E f \in Formats : display_binary_output(f)

AsmSpec == AsmInit /\ [][AsmNext]_vars

(***************************************************************************)
(* Claims about assembling a program (AsmSpec).                            *)
(***************************************************************************)
RECURSIVE OffsetOf(_, _)
\* where instruction i starts in the program: the sizes before it, summed
OffsetOf(instrs, i) ==
    IF i <= 1 THEN 0 ELSE OffsetOf(instrs, i - 1) + get_size(instrs[i - 1])

\* the bytes of one instruction encoded on its own, as line 1 of a program
EncodedAlone(i) == to_binary(Instruction(i.opcode, i.operand, 1)).value

\* C5: for a sequence of valid instructions assemble_to_binary returns the
\* encodings of the instructions one after the other and nothing else: the
\* length is the sum of the sizes, and each instruction's bytes are those it
\* has alone, wherever it stands and however often the program is assembled.
C5_OrderedConcatenation ==
    last_op = "assemble_to_binary" =>
        /\ (\A i \in 1..Len(instructions) : LegalOperand(instructions[i])) =>
                last_result.ok
        /\ last_result.ok =>
                /\ last_result.value = binary_data
                /\ Len(binary_data) = OffsetOf(instructions, Len(instructions) + 1)
                /\ \A i \in 1..Len(instructions) :
                      SubSeq(binary_data, OffsetOf(instructions, i) + 1,
                             OffsetOf(instructions, i + 1))
                        = EncodedAlone(instructions[i])
        /\ (/\ Len(instructions) = 2
            /\ instructions[1].opcode = LOAD_CONST
            /\ instructions[1].operand = Some(PyInt(468))
            /\ instructions[2].opcode = READ_MEM
            /\ instructions[2].operand = Some(PyInt(15))) =>
                binary_data = <<74, 212, 1, 0, 0, 135, 15>>

C5_Witness ==
    /\ last_op = "assemble_to_binary"
    /\ last_result.ok
    /\ Len(instructions) = 2
    /\ instructions[1].opcode = READ_MEM
    /\ instructions[2].opcode = LOAD_CONST
    /\ instructions[2].operand = Some(PyInt(468))
    /\ binary_data = <<135, 15, 74, 212, 1, 0, 0>>

\* C6: when assembling stops at the first invalid instruction there is no
\* partial result: the bytes of the instructions before it are not left in
\* binary_data, and a save_binary_file or display_binary_output that follows
\* does not emit them.
C6_NoPartialResult ==
    [][/\ (last_op' = "assemble_to_binary" /\ ~last_result'.ok) => binary_data' = <<>>
       /\ (/\ last_op = "assemble_to_binary"
           /\ ~last_result.ok
           /\ last_op' \in {"save_binary_file", "display_binary_output"}) =>
                ~last_result'.ok]_vars

\* the second half of C6 alone: what a save after a failed assemble writes
C6_SaveAfterFailure ==
    [][(/\ last_op = "assemble_to_binary"
        /\ ~last_result.ok
        /\ last_op' = "save_binary_file") => out_file' = out_file]_vars

RECURSIVE EncodingsOf(_)
\* the encodings of the instructions of a list, one after the other
EncodingsOf(instrs) ==
    IF instrs = <<>> THEN <<>>
    ELSE EncodingsOf(SubSeq(instrs, 1, Len(instrs) - 1))
            \o EncodedAlone(instrs[Len(instrs)])

\* C26: the bytes save_binary_file and display_binary_output('hex') emit are
\* always the encodings, one after the other, of the instructions the
\* assembler holds at that moment, also when instructions were appended by a
\* further parse after an earlier assemble_to_binary.  (The 'hex' line of
\* display_binary_output is the hex text of self.binary_data as the call leaves
\* it.)
C26_EmitsCurrentInstructions ==
    [][(/\ \A i \in 1..Len(instructions) : LegalOperand(instructions[i])
        /\ last_result'.ok) =>
            /\ last_op' = "save_binary_file" =>
                  out_file' = <<EncodingsOf(instructions)>>
            /\ last_op' = "display_binary_output" =>
                  HexBytes(binary_data') = HexBytes(EncodingsOf(instructions))]_vars

(***************************************************************************)
(* src/interpreter.py: UVMInterpreter.                                     *)
(***************************************************************************)
RuntimeError(m, a) == [type |-> "RuntimeError", msg |-> m, args |-> a]

\* self.data_memory[addr]
MemRead(mem, addr) == IF addr \in DOMAIN mem THEN mem[addr] ELSE 0

\* self.data_memory[addr] = value
MemWrite(mem, addr, value) ==
    IF value = 0
    THEN [a \in (DOMAIN mem) \ {addr} |-> mem[a]]
    ELSE [a \in (DOMAIN mem) \cup {addr} |-> IF a = addr THEN value ELSE mem[a]]

\* 0 <= addr < len(self.data_memory)
InDataMemory(addr) == IntLe(PyInt(0), addr) /\ IntLt(addr, PyInt(DataMemorySize))

\* what part of a cycle leaves behind: ip, stack, data memory, and the
\* exception it raised, if any
Machine(ip_, stack_, mem_, error_) ==
    [ip |-> ip_, stack |-> stack_, data_memory |-> mem_, error |-> error_]

\* UVMInterpreter.read_byte_from_code, with self.ip = ip_
read_byte_from_code(ip_) ==
    IF ip_ >= program_size
    THEN [ok |-> FALSE, value |-> 0, ip |-> ip_,
          error |-> RuntimeError("Instruction pointer beyond program end", <<>>)]
    ELSE [ok |-> TRUE, value |-> code_memory[ip_ + 1], ip |-> ip_ + 1, error |-> NoError]

\* read_dword_from_code without its self.ip += 4
read_dword_from_code_no_advance(ip_) ==
    IF ip_ + 4 > program_size
    THEN [ok |-> FALSE, value |-> PyInt(0), ip |-> ip_,
          error |-> RuntimeError("Not enough bytes to read DWORD from code", <<>>)]
    ELSE [ok |-> TRUE,
          value |-> IntOf(code_memory[ip_ + 3] + 256 * code_memory[ip_ + 4],
                          code_memory[ip_ + 1] + 256 * code_memory[ip_ + 2]),
          ip |-> ip_, error |-> NoError]

\* read_dword_from_code with struct.unpack('<i'), the four bytes taken as signed
read_dword_from_code_signed(ip_) ==
    IF ip_ + 4 > program_size
    THEN [ok |-> FALSE, value |-> PyInt(0), ip |-> ip_,
          error |-> RuntimeError("Not enough bytes to read DWORD from code", <<>>)]
    ELSE [ok |-> TRUE,
          value |-> IntOf(LET h == code_memory[ip_ + 3] + 256 * code_memory[ip_ + 4]
                          IN IF h >= Half \div 2 THEN h - Half ELSE h,
                          code_memory[ip_ + 1] + 256 * code_memory[ip_ + 2]),
          ip |-> ip_ + 4, error |-> NoError]

\* UVMInterpreter.read_dword_from_code, with self.ip = ip_: struct.unpack('<I')
\* of the four bytes at ip_
read_dword_from_code(ip_) ==
    IF ip_ + 4 > program_size
    THEN [ok |-> FALSE, value |-> PyInt(0), ip |-> ip_,
          error |-> RuntimeError("Not enough bytes to read DWORD from code", <<>>)]
    ELSE [ok |-> TRUE,
          value |-> IntOf(code_memory[ip_ + 3] + 256 * code_memory[ip_ + 4],
                          code_memory[ip_ + 1] + 256 * code_memory[ip_ + 2]),
          ip |-> ip_ + 4, error |-> NoError]

\* UVMInterpreter.push
push(stack_, value) == Append(stack_, value)

\* UVMInterpreter.pop
pop(stack_) ==
    IF stack_ = <<>>
    THEN [ok |-> FALSE, value |-> PyInt(0), stack |-> stack_,
          error |-> RuntimeError("Stack underflow", <<>>)]
    ELSE [ok |-> TRUE, value |-> stack_[Len(stack_)],
          stack |-> SubSeq(stack_, 1, Len(stack_) - 1), error |-> NoError]

\* execute, opcode == 74, after the opcode byte was fetched
exec_LOAD_CONST(ip_, stack_, mem_) ==
    LET constant == read_dword_from_code(ip_) IN
    IF ~constant.ok THEN Machine(constant.ip, stack_, mem_, constant.error)
    ELSE Machine(constant.ip, push(stack_, constant.value), mem_, NoError)

\* READ_MEM that leaves its offset byte in the code stream and reads at the base
exec_READ_MEM_offset_not_fetched(ip_, stack_, mem_) ==
    LET base_addr == pop(stack_) IN
    IF ~base_addr.ok THEN Machine(ip_, base_addr.stack, mem_, base_addr.error)
    ELSE
    IF ~InDataMemory(base_addr.value)
    THEN Machine(ip_, base_addr.stack, mem_,
                 RuntimeError("READ_MEM: invalid data address", <<base_addr.value>>))
    ELSE Machine(ip_, push(base_addr.stack, PyInt(MemRead(mem_, base_addr.value.lo))),
                 mem_, NoError)

\* READ_MEM that adds the raw offset byte, without the & 0x3F
exec_READ_MEM_no_mask(ip_, stack_, mem_) ==
    LET offset_byte == read_byte_from_code(ip_) IN
    IF ~offset_byte.ok THEN Machine(offset_byte.ip, stack_, mem_, offset_byte.error)
    ELSE
    LET base_addr == pop(stack_) IN
    IF ~base_addr.ok THEN Machine(offset_byte.ip, base_addr.stack, mem_, base_addr.error)
    ELSE
    LET addr == IntAdd(base_addr.value, PyInt(offset_byte.value)) IN
    IF ~InDataMemory(addr)
    THEN Machine(offset_byte.ip, base_addr.stack, mem_,
                 RuntimeError("READ_MEM: invalid data address", <<addr>>))
    ELSE Machine(offset_byte.ip,
                 push(base_addr.stack, PyInt(MemRead(mem_, addr.lo))), mem_, NoError)

\* READ_MEM that pops the base address before it fetches the offset byte
exec_READ_MEM_pop_first(ip_, stack_, mem_) ==
    LET base_addr == pop(stack_) IN
    IF ~base_addr.ok THEN Machine(ip_, base_addr.stack, mem_, base_addr.error)
    ELSE
    LET offset_byte == read_byte_from_code(ip_) IN
    IF ~offset_byte.ok
    THEN Machine(offset_byte.ip, base_addr.stack, mem_, offset_byte.error)
    ELSE
    LET addr == IntAdd(base_addr.value, PyInt(offset_byte.value % 64)) IN
    IF ~InDataMemory(addr)
    THEN Machine(offset_byte.ip, base_addr.stack, mem_,
                 RuntimeError("READ_MEM: invalid data address", <<addr>>))
    ELSE Machine(offset_byte.ip,
                 push(base_addr.stack, PyInt(MemRead(mem_, addr.lo))), mem_, NoError)

\* READ_MEM that reads the base address off the top of the stack and leaves it there
exec_READ_MEM_keeps_base(ip_, stack_, mem_) ==
    LET offset_byte == read_byte_from_code(ip_) IN
    IF ~offset_byte.ok THEN Machine(offset_byte.ip, stack_, mem_, offset_byte.error)
    ELSE
    LET offset == offset_byte.value % 64
        base_addr == pop(stack_) IN
    IF ~base_addr.ok THEN Machine(offset_byte.ip, base_addr.stack, mem_, base_addr.error)
    ELSE
    LET addr == IntAdd(base_addr.value, PyInt(offset)) IN
    IF ~InDataMemory(addr)
    THEN Machine(offset_byte.ip, stack_, mem_,
                 RuntimeError("READ_MEM: invalid data address", <<addr>>))
    ELSE Machine(offset_byte.ip,
                 push(stack_, PyInt(MemRead(mem_, addr.lo))), mem_, NoError)

\* execute, opcode == 135
exec_READ_MEM(ip_, stack_, mem_) ==
    LET offset_byte == read_byte_from_code(ip_) IN
    IF ~offset_byte.ok THEN Machine(offset_byte.ip, stack_, mem_, offset_byte.error)
    ELSE
    LET offset == offset_byte.value % 64
        base_addr == pop(stack_) IN
    IF ~base_addr.ok THEN Machine(offset_byte.ip, base_addr.stack, mem_, base_addr.error)
    ELSE
    LET addr == IntAdd(base_addr.value, PyInt(offset)) IN
    IF ~InDataMemory(addr)
    THEN Machine(offset_byte.ip, base_addr.stack, mem_,
                 RuntimeError("READ_MEM: invalid data address", <<addr>>))
    ELSE Machine(offset_byte.ip,
                 push(base_addr.stack, PyInt(MemRead(mem_, addr.lo))), mem_, NoError)

\* WRITE_MEM that tests the address before it pops the value
exec_WRITE_MEM_check_before_pop(ip_, stack_, mem_) ==
    LET addr == read_dword_from_code(ip_) IN
    IF ~addr.ok THEN Machine(addr.ip, stack_, mem_, addr.error)
    ELSE
    IF ~InDataMemory(addr.value)
    THEN Machine(addr.ip, stack_, mem_,
                 RuntimeError("WRITE_MEM: invalid data address", <<addr.value>>))
    ELSE
    LET popped == pop(stack_) IN
    IF ~popped.ok THEN Machine(addr.ip, popped.stack, mem_, popped.error)
    ELSE Machine(addr.ip, popped.stack,
                 MemWrite(mem_, addr.value.lo, IntAnd(popped.value, 255)), NoError)

\* WRITE_MEM with the address test <= len(self.data_memory) in place of <
exec_WRITE_MEM_bound_le(ip_, stack_, mem_) ==
    LET addr == read_dword_from_code(ip_) IN
    IF ~addr.ok THEN Machine(addr.ip, stack_, mem_, addr.error)
    ELSE
    LET popped == pop(stack_) IN
    IF ~popped.ok THEN Machine(addr.ip, popped.stack, mem_, popped.error)
    ELSE
    LET value == IntAnd(popped.value, 255) IN
    IF ~(IntLe(PyInt(0), addr.value) /\ IntLe(addr.value, PyInt(DataMemorySize)))
    THEN Machine(addr.ip, popped.stack, mem_,
                 RuntimeError("WRITE_MEM: invalid data address", <<addr.value>>))
    ELSE Machine(addr.ip, popped.stack, MemWrite(mem_, addr.value.lo, value), NoError)

\* WRITE_MEM that stores the popped value without the & 0xFF
exec_WRITE_MEM_no_mask(ip_, stack_, mem_) ==
    LET addr == read_dword_from_code(ip_) IN
    IF ~addr.ok THEN Machine(addr.ip, stack_, mem_, addr.error)
    ELSE
    LET popped == pop(stack_) IN
    IF ~popped.ok THEN Machine(addr.ip, popped.stack, mem_, popped.error)
    ELSE
    IF ~InDataMemory(addr.value)
    THEN Machine(addr.ip, popped.stack, mem_,
                 RuntimeError("WRITE_MEM: invalid data address", <<addr.value>>))
    ELSE Machine(addr.ip, popped.stack, MemWrite(mem_, addr.value.lo, popped.value.lo),
                 NoError)

\* execute, opcode == 213
exec_WRITE_MEM(ip_, stack_, mem_) ==
    LET addr == read_dword_from_code(ip_) IN
    IF ~addr.ok THEN Machine(addr.ip, stack_, mem_, addr.error)
    ELSE
    LET popped == pop(stack_) IN
    IF ~popped.ok THEN Machine(addr.ip, popped.stack, mem_, popped.error)
    ELSE
    LET value == IntAnd(popped.value, 255) IN
    IF ~InDataMemory(addr.value)
    THEN Machine(addr.ip, popped.stack, mem_,
                 RuntimeError("WRITE_MEM: invalid data address", <<addr.value>>))
    ELSE Machine(addr.ip, popped.stack, MemWrite(mem_, addr.value.lo, value), NoError)

\* the byte taken as it is, 0..255, in place of struct.unpack('<b')
SignedByte_unsigned(byte_val) == byte_val

\* struct.unpack('<b', bytes([byte_val]))
SignedByte(byte_val) == IF byte_val >= 128 THEN byte_val - 256 ELSE byte_val

\* SGN that puts the popped value back when the address is invalid
exec_SGN_restores_on_error(ip_, stack_, mem_) ==
    LET addr == pop(stack_) IN
    IF ~addr.ok THEN Machine(ip_, addr.stack, mem_, addr.error)
    ELSE
    IF ~InDataMemory(addr.value)
    THEN Machine(ip_, stack_, mem_,
                 RuntimeError("SGN: invalid data address", <<addr.value>>))
    ELSE
    LET signed_val == SignedByte(MemRead(mem_, addr.value.lo))
        result == IF signed_val > 0 THEN 1 ELSE IF signed_val < 0 THEN -1 ELSE 0 IN
    Machine(ip_, push(addr.stack, PyInt(result)), mem_, NoError)

\* SGN that pushes the signed byte itself, not its sign
exec_SGN_pushes_signed_byte(ip_, stack_, mem_) ==
    LET addr == pop(stack_) IN
    IF ~addr.ok THEN Machine(ip_, addr.stack, mem_, addr.error)
    ELSE
    IF ~InDataMemory(addr.value)
    THEN Machine(ip_, addr.stack, mem_,
                 RuntimeError("SGN: invalid data address", <<addr.value>>))
    ELSE
    LET signed_val == SignedByte(MemRead(mem_, addr.value.lo)) IN
    Machine(ip_, push(addr.stack, PyInt(signed_val)), mem_, NoError)

\* execute, opcode == 154
exec_SGN(ip_, stack_, mem_) ==
    LET addr == pop(stack_) IN
    IF ~addr.ok THEN Machine(ip_, addr.stack, mem_, addr.error)
    ELSE
    IF ~InDataMemory(addr.value)
    THEN Machine(ip_, addr.stack, mem_,
                 RuntimeError("SGN: invalid data address", <<addr.value>>))
    ELSE
    LET signed_val == SignedByte(MemRead(mem_, addr.value.lo))
        result == IF signed_val > 0 THEN 1 ELSE IF signed_val < 0 THEN -1 ELSE 0 IN
    Machine(ip_, push(addr.stack, PyInt(result)), mem_, NoError)

\* the body of the loop with a byte that is no opcode passed over
Cycle_skips_unknown(ip_, stack_, mem_) ==
    LET fetched == read_byte_from_code(ip_) IN
    IF ~fetched.ok THEN Machine(fetched.ip, stack_, mem_, fetched.error)
    ELSE CASE fetched.value = 74 -> exec_LOAD_CONST(fetched.ip, stack_, mem_)
           [] fetched.value = 135 -> exec_READ_MEM(fetched.ip, stack_, mem_)
           [] fetched.value = 213 -> exec_WRITE_MEM(fetched.ip, stack_, mem_)
           [] fetched.value = 154 -> exec_SGN(fetched.ip, stack_, mem_)
           [] OTHER -> Machine(fetched.ip, stack_, mem_, NoError)

\* the body of the loop with SGN run at the offset of its own opcode byte, as
\* if the fetch had not consumed it
Cycle_sgn_not_consumed(ip_, stack_, mem_) ==
    LET fetched == read_byte_from_code(ip_) IN
    IF ~fetched.ok THEN Machine(fetched.ip, stack_, mem_, fetched.error)
    ELSE CASE fetched.value = 74 -> exec_LOAD_CONST(fetched.ip, stack_, mem_)
           [] fetched.value = 135 -> exec_READ_MEM(fetched.ip, stack_, mem_)
           [] fetched.value = 213 -> exec_WRITE_MEM(fetched.ip, stack_, mem_)
           [] fetched.value = 154 -> exec_SGN(ip_, stack_, mem_)
           [] OTHER -> Machine(fetched.ip, stack_, mem_,
                               RuntimeError("Unknown opcode", <<fetched.value, ip_>>))

\* the body of execute's while loop, entered with self.ip = ip_
Cycle(ip_, stack_, mem_) ==
    LET fetched == read_byte_from_code(ip_) IN
    IF ~fetched.ok THEN Machine(fetched.ip, stack_, mem_, fetched.error)
    ELSE CASE fetched.value = 74 -> exec_LOAD_CONST(fetched.ip, stack_, mem_)
           [] fetched.value = 135 -> exec_READ_MEM(fetched.ip, stack_, mem_)
           [] fetched.value = 213 -> exec_WRITE_MEM(fetched.ip, stack_, mem_)
           [] fetched.value = 154 -> exec_SGN(fetched.ip, stack_, mem_)
           [] OTHER -> Machine(fetched.ip, stack_, mem_,
                               RuntimeError("Unknown opcode", <<fetched.value, ip_>>))

\* UVMInterpreter.load_program
load_program(binary_data_) ==
    /\ pc # "running"
    /\ code_memory' = binary_data_
    /\ program_size' = Len(binary_data_)
    /\ pc' = "loaded"
    /\ UNCHANGED <<data_memory, stack, ip, instruction_count, start_ip, opcode, error,
                   executions, dump, encVars, asmVars>>

\* execute that starts over at the first byte of the program
execute_rewinds_ip ==
    /\ pc # "running"
    /\ executions < MaxExecutes
    /\ executions' = executions + 1
    /\ instruction_count' = 0
    /\ error' = NoError
    /\ pc' = "running"
    /\ ip' = 0
    /\ UNCHANGED <<code_memory, program_size, data_memory, stack, start_ip, opcode,
                   dump, encVars, asmVars>>

\* UVMInterpreter.execute is called: up to the first test of the loop
execute ==
    /\ pc # "running"
    /\ executions < MaxExecutes
    /\ executions' = executions + 1
    /\ instruction_count' = 0
    /\ error' = NoError
    /\ pc' = "running"
    /\ UNCHANGED <<code_memory, program_size, data_memory, stack, ip, start_ip, opcode,
                   dump, encVars, asmVars>>

\* one pass through the loop of execute: a fetch-decode-execute cycle
ExecuteCycle ==
    /\ pc = "running"
    /\ ip < program_size
    /\ LET m == Cycle(ip, stack, data_memory) IN
       /\ start_ip' = ip
       /\ opcode' = code_memory[ip + 1]
       /\ instruction_count' = instruction_count + 1
       /\ ip' = m.ip
       /\ stack' = m.stack
       /\ data_memory' = m.data_memory
       /\ error' = m.error
       /\ pc' = IF m.error = NoError THEN "running" ELSE "error"
    /\ UNCHANGED <<code_memory, program_size, executions, dump, encVars, asmVars>>

\* the loop of execute ends: "Execution finished"
ExecuteFinished ==
    /\ pc = "running"
    /\ ip >= program_size
    /\ pc' = "halted"
    /\ UNCHANGED <<code_memory, program_size, data_memory, stack, ip, instruction_count,
                   start_ip, opcode, error, executions, dump, encVars, asmVars>>

\* what save_memory_dump writes as JSON: start, end, size and the data, one
\* entry per address of range(start, end)
MemoryDump(start, end, mem_) ==
    [start |-> start, end |-> end, size |-> end - start,
     data |-> [addr \in start..(end - 1) |-> MemRead(mem_, addr)]]

\* save_memory_dump with the test end >= len(self.data_memory)
save_memory_dump_end_ge(start, end) ==
    /\ pc # "running"
    /\ dump' = IF start < 0 \/ end >= DataMemorySize \/ start > end
               THEN [start |-> start, end |-> end,
                     result |-> Raise("ValueError", "Invalid memory range", 0),
                     file |-> dump.file]
               ELSE [start |-> start, end |-> end,
                     result |-> Return(<<>>),
                     file |-> <<MemoryDump(start, end, data_memory)>>]
    /\ UNCHANGED <<code_memory, program_size, data_memory, stack, ip, pc,
                   instruction_count, start_ip, opcode, error, executions,
                   encVars, asmVars>>

\* UVMInterpreter.save_memory_dump: the file at filepath is <<>> while absent
save_memory_dump(start, end) ==
    /\ pc # "running"
    /\ dump' = IF start < 0 \/ end > DataMemorySize \/ start > end
               THEN [start |-> start, end |-> end,
                     result |-> Raise("ValueError", "Invalid memory range", 0),
                     file |-> dump.file]
               ELSE [start |-> start, end |-> end,
                     result |-> Return(<<>>),
                     file |-> <<MemoryDump(start, end, data_memory)>>]
    /\ UNCHANGED <<code_memory, program_size, data_memory, stack, ip, pc,
                   instruction_count, start_ip, opcode, error, executions,
                   encVars, asmVars>>

(***************************************************************************)
(* VmSpec: main of interpreter.py, one interpreter that loads one program. *)
(***************************************************************************)
\* the bytes of an instruction, as the layout table of the ISA gives them
Load(v) == <<74, v.lo % 256, v.lo \div 256, v.hi % 256, v.hi \div 256>>

Read(o) == <<135, o>>

Write(a) == <<213, a.lo % 256, a.lo \div 256, a.hi % 256, a.hi \div 256>>

Sgn == <<154>>

\* what programs are put together from: whole instructions, a byte that is no
\* opcode, and instructions cut short
Pieces ==
    {Load(PyInt(v)) : v \in {0, 5, 100, 456, DataMemorySize - 1, DataMemorySize}}
    \cup {Load(IntOf(65535, 65535))}
    \cup {Read(o) : o \in {0, 5, 69, 63}}
    \cup {Write(PyInt(a)) : a \in {0, 100, DataMemorySize - 1, DataMemorySize}}
    \cup {Write(IntOf(65535, 65535))}
    \cup {Sgn}
    \cup {<<0>>, <<74, 1, 0>>, <<135>>, <<213, 0, 0, 0>>}

\* how a program begins: with nothing, or with instructions that fill some
\* memory and stack first
Prologues ==
    {<<>>,
     Load(PyInt(456)) \o Write(PyInt(5)) \o Load(PyInt(42)) \o Write(PyInt(DataMemorySize - 1)),
     Load(PyInt(100)) \o Load(PyInt(456)) \o Write(PyInt(100)) \o Load(PyInt(100)) \o Sgn,
     Load(PyInt(100)) \o Load(PyInt(42)) \o Write(PyInt(100))}

RECURSIVE Joined(_)
\* the programs of exactly n pieces
Joined(n) == IF n = 0 THEN {<<>>} ELSE {p \o q : p \in Joined(n - 1), q \in Pieces}

Programs ==
    {pre \o p : pre \in Prologues, p \in UNION {Joined(n) : n \in 0..MaxProgLen}}

VmInit ==
    /\ instr = Instruction(SGN, None, 0)
    /\ instr_binary = NotCalled
    /\ instr_size = NotCalled
    /\ AsmNew
    /\ VmNew

\* main loads the program file into the interpreter it has just constructed
LoadProgram ==
    /\ pc = "constructed"
    /\ \E b \in Programs : load_program(b)

VmNext ==
    \/ LoadProgram
    \/ execute
    \/ ExecuteCycle
    \/ ExecuteFinished

VmSpec == VmInit /\ [][VmNext]_vars

(***************************************************************************)
(* Claims about the fetch-decode-execute loop (VmSpec).                    *)
(***************************************************************************)
\* the encoded size the layout table gives an opcode byte, 0 if it is none
SizeOfOpcode(b) ==
    CASE b = 74 -> 5 [] b = 135 -> 2 [] b = 213 -> 5 [] b = 154 -> 1 [] OTHER -> 0

RECURSIVE InstructionsFrom(_, _)
\* how many instructions the bytes of code from offset pos on are, -1 if they
\* are not well-formed (a byte that is no opcode where an instruction starts,
\* or a last instruction cut short)
InstructionsFrom(code, pos) ==
    IF pos >= Len(code) THEN 0
    ELSE IF SizeOfOpcode(code[pos + 1]) = 0 \/ pos + SizeOfOpcode(code[pos + 1]) > Len(code)
    THEN -1
    ELSE LET rest == InstructionsFrom(code, pos + SizeOfOpcode(code[pos + 1])) IN
         IF rest < 0 THEN -1 ELSE rest + 1

WellFormed(code) == InstructionsFrom(code, 0) >= 0

\* the 32-bit little-endian operand that follows the opcode byte at offset pos
OperandAt(code, pos) ==
    IntOf(code[pos + 4] + 256 * code[pos + 5], code[pos + 2] + 256 * code[pos + 3])

\* a fetch-decode-execute cycle is about to run
AtCycle == pc = "running" /\ ip < program_size

\* the instruction at ip has all its bytes in the program
AtWhole(b) ==
    /\ AtCycle
    /\ code_memory[ip + 1] = b
    /\ ip + SizeOfOpcode(b) <= program_size

StackErrors == {"Stack underflow"}

AddressErrors ==
    {"READ_MEM: invalid data address", "WRITE_MEM: invalid data address",
     "SGN: invalid data address"}

\* C7, as claimed: on a fresh interpreter, execute of a well-formed program
\* halts after exactly as many cycles as the program has instructions (read
\* here in the claim's favour: when execute has stopped, in Halted or with an
\* error, it has run as many cycles as the program has instructions).
C7_HaltsAfterEveryInstruction ==
    (executions = 1 /\ WellFormed(code_memory) /\ pc \in {"halted", "error"}) =>
        instruction_count = InstructionsFrom(code_memory, 0)

\* C7, amended: on a fresh interpreter, execute of a well-formed program halts
\* after exactly as many cycles as the program has instructions unless one of
\* them raises a stack-underflow or invalid-address error; then execute stops
\* with that error, after no more cycles than there are instructions.  Until
\* it stops, the cycles run and the instructions still ahead add up to the
\* instructions of the program.
C7_HaltsUnlessInstructionFails ==
    (executions = 1 /\ WellFormed(code_memory)) =>
        /\ pc = "halted" =>
              /\ instruction_count = InstructionsFrom(code_memory, 0)
              /\ ip = program_size
        /\ pc = "error" =>
              /\ error.msg \in StackErrors \cup AddressErrors
              /\ instruction_count <= InstructionsFrom(code_memory, 0)
        /\ pc = "running" =>
              /\ InstructionsFrom(code_memory, ip) >= 0
              /\ instruction_count + InstructionsFrom(code_memory, ip)
                    = InstructionsFrom(code_memory, 0)

C7_Witness ==
    /\ executions = 1
    /\ WellFormed(code_memory)
    /\ pc = "halted"
    /\ instruction_count = 6
    /\ InstructionsFrom(code_memory, 0) = 6

\* C8: during execute the instruction pointer never decreases; after every
\* cycle, one that ends in an error too, it is larger than at the start of the
\* cycle, and after a cycle that completes it is larger by exactly the size of
\* the instruction (5, 2, 5 or 1).
C8_IpAdvances ==
    [][/\ ip' >= ip
       /\ AtCycle =>
            /\ ip' > ip
            /\ pc' = "running" =>
                  /\ SizeOfOpcode(code_memory[ip + 1]) > 0
                  /\ ip' = ip + SizeOfOpcode(code_memory[ip + 1])]_vars

C8_Witness ==
    /\ pc = "error"
    /\ error.msg = "Not enough bytes to read DWORD from code"
    /\ start_ip > 0
    /\ ip = start_ip + 1

\* C9: a READ_MEM, WRITE_MEM or SGN that is whole in the program and runs with
\* the stack empty fails with the stack-underflow error, whatever its operand
\* (a WRITE_MEM address out of range too), and leaves data memory as it was.
C9_UnderflowOnEmptyStack ==
    [][(stack = <<>> /\ (AtWhole(135) \/ AtWhole(213) \/ AtWhole(154))) =>
            /\ pc' = "error"
            /\ error' = RuntimeError("Stack underflow", <<>>)
            /\ data_memory' = data_memory
            /\ stack' = <<>>]_vars

C9_Witness ==
    /\ pc = "error"
    /\ error.msg = "Stack underflow"
    /\ opcode = 213
    /\ ip = start_ip + 5
    /\ OperandAt(code_memory, start_ip) = PyInt(DataMemorySize)
    /\ data_memory # ZeroMemory

\* C10: with the stack not empty, WRITE_MEM(address) succeeds exactly when
\* 0 <= address < data_memory_size: at data_memory_size it fails with the
\* invalid-address error, at data_memory_size - 1 it succeeds; the address
\* tested is the operand of the instruction, never a value of the stack.
C10_WriteAddressBounds ==
    [][(stack # <<>> /\ AtWhole(213)) =>
            LET address == OperandAt(code_memory, ip) IN
            /\ pc' = "running" <=>
                  (address.hi = 0 /\ address.lo >= 0 /\ address.lo < DataMemorySize)
            /\ pc' # "running" =>
                  /\ pc' = "error"
                  /\ error' = RuntimeError("WRITE_MEM: invalid data address", <<address>>)
                  /\ data_memory' = data_memory
            /\ address = PyInt(DataMemorySize) => pc' = "error"
            /\ address = PyInt(DataMemorySize - 1) => pc' = "running"]_vars

\* load data_memory_size; write data_memory_size - 1 has run without error
C10_Witness ==
    /\ error = NoError
    /\ opcode = 213
    /\ start_ip >= 5
    /\ ip = start_ip + 5
    /\ SubSeq(code_memory, start_ip - 4, start_ip + 5)
         = Load(PyInt(DataMemorySize)) \o Write(PyInt(DataMemorySize - 1))

(***************************************************************************)
(* Claims about the four instructions (VmSpec).                            *)
(***************************************************************************)
\* the top of a stack, and what is below it
Top(s) == s[Len(s)]

Below(s) == SubSeq(s, 1, Len(s) - 1)

\* v & 0xFF of an integer v, negative ones in two's complement
LowByte(v) == v.lo % 256

\* 0 <= a < data_memory_size
InRange(a) == a.hi = 0 /\ a.lo >= 0 /\ a.lo < DataMemorySize

\* C11: a WRITE_MEM(address) that succeeds removes exactly the top element v of
\* the stack, sets data[address] to v & 0xFF (-1 is stored as 255, a value of
\* 256 or more modulo 256) and leaves every other byte of data memory and the
\* rest of the stack as they were; load 100; load 42; write 100 ends with the
\* stack [100] and data[100] = 42.
C11_WriteStoresLowByte ==
    [][/\ (stack # <<>> /\ AtWhole(213) /\ InRange(OperandAt(code_memory, ip))) =>
            LET address == OperandAt(code_memory, ip).lo
                v == Top(stack) IN
            /\ pc' = "running"
            /\ stack' = Below(stack)
            /\ \A a \in DOMAIN data_memory \cup DOMAIN data_memory' \cup {address} :
                  /\ a \in 0..(DataMemorySize - 1)
                  /\ MemRead(data_memory', a)
                        = IF a = address THEN LowByte(v) ELSE MemRead(data_memory, a)
            /\ v = PyInt(-1) => MemRead(data_memory', address) = 255
            /\ (v.hi = 0 /\ v.lo >= 256) =>
                  /\ MemRead(data_memory', address) < 256
                  /\ (v.lo - MemRead(data_memory', address)) % 256 = 0
       /\ (/\ AtCycle
           /\ ip = 10
           /\ program_size >= 15
           /\ SubSeq(code_memory, 1, 15)
                = Load(PyInt(100)) \o Load(PyInt(42)) \o Write(PyInt(100))
           /\ stack = <<PyInt(100), PyInt(42)>>) =>
            /\ stack' = <<PyInt(100)>>
            /\ MemRead(data_memory', 100) = 42]_vars

\* a write has stored the -1 that sgn pushed, as 255
C11_Witness ==
    /\ executions = 1
    /\ error = NoError
    /\ opcode = 213
    /\ ip = start_ip + 5
    /\ stack = <<PyInt(100)>>
    /\ MemRead(data_memory, OperandAt(code_memory, start_ip).lo) = 255

\* C12: READ_MEM with the raw offset byte b pops base and takes address =
\* base + (b & 0x3F); outside 0 .. data_memory_size - 1 (a negative address
\* from base = -1 too) it fails with the invalid-address error, otherwise it
\* pushes data[address], a value in 0..255; data memory and the stack below
\* the popped element stay as they were.  Only b & 0x3F enters, so offset bytes
\* that differ in their top two bits alone behave alike.
C12_ReadMaskedOffset ==
    [][(stack # <<>> /\ AtWhole(135)) =>
            LET b == code_memory[ip + 2]
                base == Top(stack)
                address == IntAdd(base, PyInt(b % 64)) IN
            /\ data_memory' = data_memory
            /\ ip' = ip + 2
            /\ IF InRange(address)
               THEN /\ pc' = "running"
                    /\ stack' = Append(Below(stack), PyInt(MemRead(data_memory, address.lo)))
                    /\ Top(stack').hi = 0
                    /\ Top(stack').lo \in 0..255
               ELSE /\ pc' = "error"
                    /\ error' = RuntimeError("READ_MEM: invalid data address", <<address>>)
                    /\ SubSeq(stack', 1, Len(stack) - 1) = Below(stack)
            /\ (base = PyInt(-1) /\ b % 64 = 0) => pc' = "error"]_vars

\* read with the offset byte 69 = 64 + 5 has pushed data[0 + 5] = 200
C12_Witness ==
    /\ executions = 1
    /\ error = NoError
    /\ opcode = 135
    /\ ip = start_ip + 2
    /\ code_memory[start_ip + 2] = 69
    /\ stack = <<PyInt(200)>>
    /\ MemRead(data_memory, 5) = 200

\* C13: SGN pops one value and takes it as the address, nothing added; within
\* 0 .. data_memory_size - 1 it pushes 0 when data[address] is 0, +1 when it is
\* in 1..127 and -1 when it is in 128..255, and leaves data memory as it was;
\* otherwise it fails with the invalid-address error.
C13_SgnOfSignedByte ==
    [][(stack # <<>> /\ AtWhole(154)) =>
            LET address == Top(stack) IN
            /\ data_memory' = data_memory
            /\ ip' = ip + 1
            /\ IF InRange(address)
               THEN LET byte == MemRead(data_memory, address.lo) IN
                    /\ pc' = "running"
                    /\ stack' = Append(Below(stack),
                                       PyInt(CASE byte = 0 -> 0
                                               [] byte \in 1..127 -> 1
                                               [] byte \in 128..255 -> -1))
               ELSE /\ pc' = "error"
                    /\ error' = RuntimeError("SGN: invalid data address", <<address>>)]_vars

\* sgn of data[5] = 200 has pushed -1
C13_Witness ==
    /\ executions = 1
    /\ error = NoError
    /\ opcode = 154
    /\ start_ip >= 5
    /\ SubSeq(code_memory, start_ip - 4, start_ip) = Load(PyInt(5))
    /\ MemRead(data_memory, 5) = 200
    /\ stack = <<PyInt(-1)>>

\* C14: LOAD_CONST with its four operand bytes in the program never fails: it
\* appends the operand, taken as an unsigned 32-bit little-endian number, to
\* the stack and leaves data memory and the elements already on the stack as
\* they were, whatever they are.
C14_LoadConstPushes ==
    [][AtWhole(74) =>
            /\ pc' = "running"
            /\ error' = NoError
            /\ ip' = ip + 5
            /\ stack' = Append(stack, OperandAt(code_memory, ip))
            /\ Top(stack').hi \in 0..(Half - 1)
            /\ Top(stack').lo \in 0..(Half - 1)
            /\ data_memory' = data_memory]_vars

\* load 4294967295 has run on a stack and a data memory that are not empty
C14_Witness ==
    /\ executions = 1
    /\ error = NoError
    /\ opcode = 74
    /\ ip = start_ip + 5
    /\ data_memory # ZeroMemory
    /\ Len(stack) = 3
    /\ stack[2] = PyInt(-1)
    /\ Top(stack) = IntOf(Half - 1, Half - 1)

(***************************************************************************)
(* Claims about how execute ends (VmSpec).                                 *)
(***************************************************************************)
\* C17: Halted is terminal.  execute enters Halted exactly when, at the test of
\* its loop, the instruction pointer equals the program length, every
\* instruction before having completed; a further call of execute on the same
\* loaded program then runs zero cycles and leaves ip, stack and data memory
\* as they are.
C17_HaltedIsTerminal ==
    [][/\ pc' = "halted" <=> (pc = "running" /\ ip = program_size)
       /\ pc' = "halted" =>
            /\ error = NoError
            /\ error' = NoError
            /\ instruction_count' = instruction_count
            /\ <<ip', stack', data_memory'>> = <<ip, stack, data_memory>>
       /\ pc = "halted" =>
            /\ ip = program_size
            /\ pc' = "running"
            /\ instruction_count' = 0
            /\ <<ip', stack', data_memory'>> = <<ip, stack, data_memory>>]_vars

\* load 100; load 42; write 100 has halted, and a second execute has ended
\* after zero cycles
C17_Witness ==
    /\ code_memory = Load(PyInt(100)) \o Load(PyInt(42)) \o Write(PyInt(100))
    /\ pc = "halted"
    /\ executions = 2
    /\ instruction_count = 0
    /\ ip = 15
    /\ stack = <<PyInt(100)>>
    /\ MemRead(data_memory, 100) = 42

\* the instruction pointer offset an exception of execute carries: the text of
\* "Unknown opcode" ends with "at IP=0x{start_ip}", the texts of the other
\* exceptions hold no offset (the invalid-address ones hold the data address)
ErrorIp(e) == IF e.msg = "Unknown opcode" THEN <<e.args[2]>> ELSE <<>>

\* C18: every error execute raises (illegal opcode, truncated instruction,
\* stack underflow, invalid address) carries the instruction pointer offset of
\* the instruction that failed.
C18_ErrorsCarryIp == pc = "error" => ErrorIp(error) = <<start_ip>>

TruncationErrors ==
    {"Not enough bytes to read DWORD from code", "Instruction pointer beyond program end"}

\* C19: when the program ends before the operand of its last instruction is
\* complete (fewer than 4 bytes after a 74 or a 213, no byte after a 135),
\* execute fails in that cycle with a truncated-instruction error, before the
\* instruction pops, pushes or writes: stack and data memory are as before the
\* instruction, with an empty stack too.
C19_TruncatedInstruction ==
    [][(/\ AtCycle
        /\ \/ code_memory[ip + 1] \in {74, 213} /\ program_size - (ip + 1) < 4
           \/ code_memory[ip + 1] = 135 /\ program_size - (ip + 1) < 1) =>
            /\ pc' = "error"
            /\ error'.msg \in TruncationErrors
            /\ instruction_count' = instruction_count + 1
            /\ stack' = stack
            /\ data_memory' = data_memory]_vars

\* a 135 that is the last byte of the program has failed, the stack empty
C19_Witness ==
    /\ pc = "error"
    /\ error.msg \in TruncationErrors
    /\ opcode = 135
    /\ start_ip = program_size - 1
    /\ stack = <<>>
    /\ data_memory # ZeroMemory

\* C20: when the byte fetched where an instruction starts is none of 74, 135,
\* 213, 154, execute fails in that cycle with the illegal-opcode error, runs no
\* later instruction (all that follows is a new call of execute), and leaves
\* stack and data memory as the instructions before left them.
C20_IllegalOpcode ==
    [][/\ (AtCycle /\ code_memory[ip + 1] \notin {74, 135, 213, 154}) =>
            /\ pc' = "error"
            /\ error' = RuntimeError("Unknown opcode", <<code_memory[ip + 1], ip>>)
            /\ instruction_count' = instruction_count + 1
            /\ stack' = stack
            /\ data_memory' = data_memory
       /\ (pc = "error" /\ error.msg = "Unknown opcode") =>
            /\ executions' = executions + 1
            /\ instruction_count' = 0
            /\ <<stack', data_memory'>> = <<stack, data_memory>>]_vars

\* the byte 255 was fetched as an opcode after instructions that left a stack
C20_Witness ==
    /\ pc = "error"
    /\ executions = 1
    /\ error = RuntimeError("Unknown opcode", <<255, start_ip>>)
    /\ opcode = 255
    /\ start_ip > 0
    /\ ip < program_size
    /\ stack # <<>>
    /\ data_memory # ZeroMemory

\* C25: when READ_MEM, WRITE_MEM or SGN fails with an invalid-address error,
\* data memory is unchanged and the value the instruction popped is not put
\* back: the stack after the failure is the stack before the instruction
\* without its top element.
C25_PoppedValueNotRestored ==
    [][(AtCycle /\ pc' = "error" /\ error'.msg \in AddressErrors) =>
            /\ code_memory[ip + 1] \in {135, 213, 154}
            /\ data_memory' = data_memory
            /\ stack # <<>>
            /\ stack' = Below(stack)]_vars

\* sgn has popped -1 off the stack [100, -1] and failed on it
C25_Witness ==
    /\ pc = "error"
    /\ executions = 1
    /\ opcode = 154
    /\ error = RuntimeError("SGN: invalid data address", <<PyInt(-1)>>)
    /\ stack = <<PyInt(100)>>
    /\ data_memory # ZeroMemory

\* data memory has its construction-time length and holds bytes, and every
\* element of the stack is -1 or an integer in 0 .. 2^32 - 1
MemoryAndStackInRange(mem_, stack_) ==
    /\ DOMAIN mem_ \subseteq 0..(DataMemorySize - 1)
    /\ \A a \in DOMAIN mem_ : mem_[a] \in 0..255
    /\ \A n \in 1..Len(stack_) :
          \/ stack_[n] = PyInt(-1)
          \/ stack_[n].hi \in 0..(Half - 1) /\ stack_[n].lo \in 0..(Half - 1)

\* C28, as claimed: in every state reachable from a newly constructed
\* interpreter, data memory keeps its length with every byte in 0..255, every
\* stack element is -1 or in 0 .. 2^32 - 1, and the stack depth is the number
\* of completed LOAD_CONST minus the number of completed WRITE_MEM: the depth
\* is 0 at construction, a completed LOAD_CONST adds one, a completed
\* WRITE_MEM takes one, and no other step changes it.
C28_DepthIsLoadsMinusWrites ==
    [][/\ MemoryAndStackInRange(data_memory', stack')
       /\ Len(stack') - Len(stack) =
            IF AtCycle /\ pc' = "running"
            THEN CASE code_memory[ip + 1] = 74 -> 1
                   [] code_memory[ip + 1] = 213 -> -1
                   [] OTHER -> 0
            ELSE 0]_vars

\* C28, amended: the same, except that an instruction that fails with an
\* invalid-address error has taken its operand off the stack: the depth is
\* completed LOAD_CONST minus completed WRITE_MEM minus the instructions that
\* failed with an invalid-address error.
C28_DepthCountsFailedPops ==
    [][/\ MemoryAndStackInRange(data_memory', stack')
       /\ Len(stack') - Len(stack) =
            IF AtCycle /\ pc' = "running"
            THEN CASE code_memory[ip + 1] = 74 -> 1
                   [] code_memory[ip + 1] = 213 -> -1
                   [] OTHER -> 0
            ELSE IF AtCycle /\ error'.msg \in AddressErrors THEN -1
            ELSE 0]_vars

\* load 1024; read 0 has failed on the address 1024: one LOAD_CONST completed,
\* no WRITE_MEM, and the stack is empty
C28_Witness ==
    /\ code_memory = Load(PyInt(DataMemorySize)) \o Read(0)
    /\ pc = "error"
    /\ executions = 1
    /\ instruction_count = 2
    /\ error = RuntimeError("READ_MEM: invalid data address", <<PyInt(DataMemorySize)>>)
    /\ stack = <<>>

(***************************************************************************)
(* VmFairSpec: VmSpec, with what Python guarantees of a call in progress:  *)
(* execute is straight-line code in one thread, so once called its loop    *)
(* keeps taking steps until it returns or raises.                          *)
(***************************************************************************)
VmFairSpec ==
    /\ VmInit
    /\ [][VmNext]_vars
    /\ WF_vars(ExecuteCycle)
    /\ WF_vars(ExecuteFinished)

\* C21: whatever bytes are loaded as the program, well-formed or not, a call
\* of execute eventually stops, in Halted or with an error, and it runs no more
\* cycles than the program has bytes.
C21_ExecuteTerminates ==
    /\ [](instruction_count <= program_size)
    /\ (pc = "running") ~> (pc \in {"halted", "error"})

\* execute has stopped, after several cycles, on bytes that are no well-formed
\* program
C21_Witness ==
    /\ pc = "error"
    /\ executions = 1
    /\ ~WellFormed(code_memory)
    /\ error.msg = "Unknown opcode"
    /\ instruction_count >= 2
    /\ instruction_count <= program_size

(***************************************************************************)
(* DumpSpec: an interpreter whose caller also asks for memory dumps.       *)
(***************************************************************************)
\* the values tried as start and as end of the range
DumpBounds == {-1, 0, 5, 6, DataMemorySize, DataMemorySize + 1}

DumpPrograms == Prologues \cup {Sgn}

LoadDumpProgram ==
    /\ pc = "constructed"
    /\ \E b \in DumpPrograms : load_program(b)

SaveMemoryDump == \E start \in DumpBounds, end \in DumpBounds : save_memory_dump(start, end)

DumpNext ==
    \/ LoadDumpProgram
    \/ execute
    \/ ExecuteCycle
    \/ ExecuteFinished
    \/ SaveMemoryDump

DumpSpec == VmInit /\ [][DumpNext]_vars

\* C22: save_memory_dump(start, end) rejects with an error every range that
\* violates start <= end or has a bound outside the data memory, and then
\* produces no snapshot; for a valid range it yields exactly the entries
\* address -> current byte for the addresses start .. end - 1; data memory,
\* stack and ip stay as they are.
C22_DumpRange ==
    [][dump' # dump =>
            LET start == dump'.start
                end == dump'.end
                valid == /\ start <= end
                         /\ start \in 0..DataMemorySize
                         /\ end \in 0..DataMemorySize IN
            /\ <<data_memory', stack', ip'>> = <<data_memory, stack, ip>>
            /\ ~valid =>
                  /\ ~dump'.result.ok
                  /\ dump'.result.type = "ValueError"
                  /\ dump'.file = dump.file
            /\ valid =>
                  /\ dump'.result.ok
                  /\ Len(dump'.file) = 1
                  /\ DOMAIN dump'.file[1].data = start..(end - 1)
                  /\ \A a \in start..(end - 1) :
                        dump'.file[1].data[a] = MemRead(data_memory, a)]_vars

\* the whole of a data memory that holds non-zero bytes was dumped
C22_Witness ==
    /\ dump.result.ok
    /\ dump.start = 0
    /\ dump.end = DataMemorySize
    /\ pc = "halted"
    /\ dump.file[1].data[5] = 200
    /\ dump.file[1].data[DataMemorySize - 1] = 42

(***************************************************************************)
(* RoundTripSpec: an interpreter that runs programs in which a value is    *)
(* written to data memory and read back.                                   *)
(***************************************************************************)
\* load v; write a; load a; read 0
RoundTrip(v, a) == Load(v) \o Write(a) \o Load(a) \o Read(0)

RoundTripValues ==
    {PyInt(0), PyInt(42), PyInt(255), PyInt(256), PyInt(456), IntOf(Half - 1, Half - 1)}

RoundTripAddresses == {PyInt(0), PyInt(5), PyInt(100), PyInt(DataMemorySize - 1)}

\* what runs before the sequence and leaves it a stack and a data memory
RoundTripStarts ==
    {pre \o q : pre \in Prologues, q \in {<<>>, Load(PyInt(DataMemorySize))}}

RoundTripPrograms ==
    {pre \o RoundTrip(v, a) :
        pre \in RoundTripStarts, v \in RoundTripValues, a \in RoundTripAddresses}

LoadRoundTripProgram ==
    /\ pc = "constructed"
    /\ \E b \in RoundTripPrograms : load_program(b)

RoundTripNext ==
    \/ LoadRoundTripProgram
    \/ execute
    \/ ExecuteCycle
    \/ ExecuteFinished

RoundTripSpec == VmInit /\ [][RoundTripNext]_vars

RECURSIVE RunUntil(_, _, _, _)
\* what the cycles of execute leave behind that run from self.ip = ip_ until
\* the instruction pointer reaches stop or an instruction raises
RunUntil(stop, ip_, stack_, mem_) ==
    IF ip_ >= stop \/ ip_ >= program_size THEN Machine(ip_, stack_, mem_, NoError)
    ELSE LET m == Cycle(ip_, stack_, mem_) IN
         IF m.error # NoError THEN m ELSE RunUntil(stop, m.ip, m.stack, m.data_memory)

\* the next instructions to run are load v; write a; load a; read 0
AtRoundTrip(v, a) ==
    /\ AtCycle
    /\ ip + Len(RoundTrip(v, a)) <= program_size
    /\ SubSeq(code_memory, ip + 1, ip + Len(RoundTrip(v, a))) = RoundTrip(v, a)

\* C23: from any state, the sequence load v; write a; load a; read 0 with
\* 0 <= a < data_memory_size completes without an error and leaves v mod 256
\* on top of the stack, the stack below it as it was before the sequence.
C23_WriteReadRoundTrip ==
    \A v \in RoundTripValues, a \in RoundTripAddresses :
        AtRoundTrip(v, a) =>
            LET m == RunUntil(ip + Len(RoundTrip(v, a)), ip, stack, data_memory) IN
            /\ m.error = NoError
            /\ m.ip = ip + Len(RoundTrip(v, a))
            /\ Len(m.stack) = Len(stack) + 1
            /\ Below(m.stack) = stack
            /\ Top(m.stack).hi = 0
            /\ Top(m.stack).lo \in 0..255
            /\ (v.lo - Top(m.stack).lo) % 256 = 0

\* load 456; write 1023; load 1023; read 0 has run on a stack that was not
\* empty and has left 200 on top
C23_Witness ==
    /\ executions = 1
    /\ pc = "running"
    /\ ip = program_size
    /\ program_size > Len(RoundTrip(PyInt(456), PyInt(DataMemorySize - 1)))
    /\ SubSeq(code_memory, ip - Len(RoundTrip(PyInt(456), PyInt(DataMemorySize - 1))) + 1, ip)
         = RoundTrip(PyInt(456), PyInt(DataMemorySize - 1))
    /\ Len(stack) >= 2
    /\ Top(stack) = PyInt(200)
    /\ MemRead(data_memory, DataMemorySize - 1) = 200

(***************************************************************************)
(* PipeSpec: the two programs one after the other, as their mains run      *)
(* them: the assembler parses the lines of a source file, assembles and    *)
(* saves the binary file; the interpreter loads that file and executes it. *)
(***************************************************************************)
PipeOperands ==
    {None, Some(IntOf(Half - 1, Half - 1))}
    \cup {Some(PyInt(v)) : v \in {0, 5, 63, 64, 74, 213, DataMemorySize - 1}}

\* one more line of the source file is parsed
PipeParse ==
    /\ last_op \in {"__init__", "parse_simple_text"}
    /\ last_result.ok
    /\ \E m \in Mnemonics, x \in PipeOperands : parse_simple_text(m, x)

\* binary_data = assembler.assemble_to_binary()
PipeAssemble ==
    /\ last_op \in {"__init__", "parse_simple_text"}
    /\ last_result.ok
    /\ AssembleToBinary

\* assembler.save_binary_file(args.output_file)
PipeSave ==
    /\ last_op = "assemble_to_binary"
    /\ last_result.ok
    /\ save_binary_file

\* the interpreter reads the file and loads it
PipeLoad ==
    /\ pc = "constructed"
    /\ last_op = "save_binary_file"
    /\ last_result.ok
    /\ load_program(out_file[1])

\* interpreter.execute(args.verbose), and any further call of it
PipeExecute ==
    /\ pc # "constructed"
    /\ execute

PipeNext ==
    \/ PipeParse
    \/ PipeAssemble
    \/ PipeSave
    \/ PipeLoad
    \/ PipeExecute
    \/ ExecuteCycle
    \/ ExecuteFinished

PipeSpec == VmInit /\ [][PipeNext]_vars

\* C24: for every sequence of instructions assemble_to_binary accepts, the
\* interpreter decodes the bytes into the same opcodes and operands at the
\* same instruction boundaries: cycle k starts at the offset of instruction k
\* and ends at the offset of the next, fetches its opcode (an operand byte that
\* equals an opcode value is never dispatched), reports neither an illegal
\* opcode nor a truncated instruction, and acts on its operand as assembled:
\* load pushes it, write tests and writes at it, read adds exactly the offset
\* that was encoded (the 0x3F mask changes nothing).  A run that halts has run
\* every instruction.
C24_EncoderInterpreterAgree ==
    [][/\ (AtCycle /\ executions = 1) =>
            LET k == instruction_count + 1 IN
            /\ k <= Len(instructions)
            /\ ip = OffsetOf(instructions, k)
            /\ code_memory[ip + 1] = instructions[k].opcode
            /\ ip' = OffsetOf(instructions, k + 1)
            /\ error'.msg \notin {"Unknown opcode"} \cup TruncationErrors
            /\ instructions[k].opcode = LOAD_CONST =>
                  stack' = Append(stack, instructions[k].operand[1])
            /\ (instructions[k].opcode = WRITE_MEM /\ stack # <<>>) =>
                  LET address == instructions[k].operand[1] IN
                  IF InRange(address)
                  THEN /\ error' = NoError
                       /\ MemRead(data_memory', address.lo) = LowByte(Top(stack))
                  ELSE error' = RuntimeError("WRITE_MEM: invalid data address", <<address>>)
            /\ (instructions[k].opcode = READ_MEM /\ stack # <<>>) =>
                  LET address == IntAdd(Top(stack), instructions[k].operand[1]) IN
                  IF InRange(address)
                  THEN /\ error' = NoError
                       /\ stack' = Append(Below(stack), PyInt(MemRead(data_memory, address.lo)))
                  ELSE error' = RuntimeError("READ_MEM: invalid data address", <<address>>)
       /\ (pc' = "halted" /\ executions = 1) =>
            /\ instruction_count = Len(instructions)
            /\ ip = OffsetOf(instructions, Len(instructions) + 1)]_vars

\* load 74; load 213 was assembled, saved, loaded and run to its end
C24_Witness ==
    /\ pc = "halted"
    /\ executions = 1
    /\ Len(instructions) = 2
    /\ code_memory = <<74, 74, 0, 0, 0, 74, 213, 0, 0, 0>>
    /\ instruction_count = 2
    /\ stack = <<PyInt(74), PyInt(213)>>

(***************************************************************************)
(* ReuseSpec: one UVMInterpreter object used through its methods in any    *)
(* order a caller may choose: load_program again after a run, execute      *)
(* again.                                                                  *)
(***************************************************************************)
ReusePieces ==
    {Load(PyInt(5)), Write(PyInt(100)), Sgn, <<0>>}

RECURSIVE ReuseJoined(_)
\* the programs of exactly n of these pieces
ReuseJoined(n) ==
    IF n = 0 THEN {<<>>} ELSE {p \o q : p \in ReuseJoined(n - 1), q \in ReusePieces}

ReusePrograms == UNION {ReuseJoined(n) : n \in 0..MaxReuseLen}

\* load_program is called whenever execute is not running
LoadAnyProgram ==
    /\ pc # "running"
    /\ \E b \in ReusePrograms : load_program(b)

ReuseNext ==
    \/ LoadAnyProgram
    \/ execute
    \/ ExecuteCycle
    \/ ExecuteFinished

ReuseSpec == VmInit /\ [][ReuseNext]_vars

(***************************************************************************)
(* Claims about a reused interpreter (ReuseSpec).                          *)
(***************************************************************************)
RECURSIVE RunFrom(_, _, _)
\* what the loop of execute leaves behind when it is entered with self.ip =
\* ip_, self.stack = stack_ and self.data_memory = mem_, on the loaded program
RunFrom(ip_, stack_, mem_) ==
    IF ip_ >= program_size THEN Machine(ip_, stack_, mem_, NoError)
    ELSE LET m == Cycle(ip_, stack_, mem_) IN
         IF m.error # NoError THEN m ELSE RunFrom(m.ip, m.stack, m.data_memory)

\* what execute of the loaded program leaves behind on an interpreter that was
\* just constructed
FreshRun == RunFrom(0, <<>>, ZeroMemory)

\* C15: after load_program the interpreter is Ready, the program loaded and the
\* instruction pointer at 0, whatever was done with the interpreter before (a
\* load that follows an earlier load and execute too).
C15_ReadyAtZero == pc = "loaded" => ip = 0

\* C16: runs are independent: what loading and executing a program leaves as
\* stack and data memory (and where it stops) does not depend on the programs
\* loaded and executed on the interpreter before; it is what a newly
\* constructed interpreter would leave.
C16_RunsIndependent ==
    pc = "loaded" =>
        /\ RunFrom(ip, stack, data_memory).stack = FreshRun.stack
        /\ RunFrom(ip, stack, data_memory).data_memory = FreshRun.data_memory
        /\ RunFrom(ip, stack, data_memory).error = FreshRun.error

\* C27: in every reachable state of an interpreter, those reached through an
\* error too, 0 <= ip <= program_size: no fetch reads or advances past the end
\* of code memory, and the opcode fetch that starts a cycle never fails (a
\* fetch that fails is the fetch of an operand).
C27_IpWithinProgram ==
    /\ 0 <= ip
    /\ ip <= program_size
    /\ (pc = "error" /\ error.msg \in TruncationErrors) => opcode \in {74, 135, 213}

====
